---- MODULE Spec2Model ----
(***************************************************************************)
(* A model of dclab's RT-DC copier (dclab/rtdc_dataset/copier.py):         *)
(* rtdc_copy, h5ds_copy and is_properly_compressed, acting on an abstract  *)
(* HDF5 container (root attributes, groups, datasets with creation         *)
(* properties, attributes and data).                                       *)
(***************************************************************************)
EXTENDS Integers, Sequences, FiniteSets, TLC

VARIABLES
    src,    \* the source container (src_h5file)
    dst,    \* the destination container (dst_h5file)
    dst0,   \* the destination container as it was when the call began
    prev,   \* the call that ran before the running one: its source and arguments
    pc,     \* position of the running call
    entry,  \* which function the caller invoked: "rtdc_copy" or "h5ds_copy"
    args,   \* the arguments of rtdc_copy
    todo,   \* the names the current `for` loop of rtdc_copy has not visited yet
    call,   \* the frame of the running h5ds_copy call
    err,    \* the exception that ended the call ("" while none)
    log     \* history of the accesses made by the call, in order

vars == <<src, dst, dst0, prev, pc, entry, args, todo, call, err, log>>

----------------------------------------------------------------------------
(* Bounds of the model *)

\* largest extent of an axis of a dataset
MaxLen == 3
\* largest length of an array whose statistics are computed
MaxStat == 4

(* Program constants *)

\* the HDF5 filter id of Zstandard
ZstdId == 32015
\* the lowest compression level that counts as properly compressed
MinLevel == 5
\* the compression level of hdf5plugin.Zstd(clevel=5)
ZstdLevel == 5
----------------------------------------------------------------------------
(* Values: float elements and attribute values, n/d for a finite number *)

Num(x) == [k |-> "num", n |-> x, d |-> 1]
NaN == [k |-> "nan", n |-> 0, d |-> 1]
Inf == [k |-> "inf", n |-> 0, d |-> 1]

RECURSIVE Gcd(_, _)
Gcd(a, b) == IF b = 0 THEN a ELSE Gcd(b, a % b)

Rat(n, d) == LET g == Gcd(IF n < 0 THEN -n ELSE n, d)
             IN  [k |-> "num", n |-> n \div g, d |-> d \div g]

\* the empty mapping (no attributes, no entries); also None for a chunk shape
Empty == <<>>
None == <<>>

----------------------------------------------------------------------------
(* Arrays *)

Coords(shape) ==
    IF Len(shape) = 1
    THEN {<<i>> : i \in 0..(shape[1] - 1)}
    ELSE {<<i, j>> : i \in 0..(shape[1] - 1), j \in 0..(shape[2] - 1)}

\* the elements of an array, as a bag-like set of (coordinate, value) pairs
Elems(data) == {<<c, data[c]>> : c \in DOMAIN data}

RECURSIVE SumOf(_)
SumOf(S) == IF S = {} THEN 0
            ELSE LET e == CHOOSE x \in S : TRUE
                 IN  e[2].n + SumOf(S \ {e})

\* np.min: the smallest element, NaN if any element is NaN
npmin(data) ==
    LET F == {e[2].n : e \in {x \in Elems(data) : x[2].k = "num"}}
    IN  IF \E e \in Elems(data) : e[2].k = "nan" THEN NaN
        ELSE IF F = {} THEN Inf
        ELSE Num(CHOOSE m \in F : \A x \in F : m <= x)

\* np.nanmin: the smallest element, NaN ignored
nanmin(data) ==
    LET S == {e \in Elems(data) : e[2].k # "nan"}
        F == {e[2].n : e \in {x \in S : x[2].k = "num"}}
    IN  IF S = {} THEN NaN
        ELSE IF F = {} THEN Inf
        ELSE Num(CHOOSE m \in F : \A x \in F : m <= x)

\* np.nanmax: the largest element, NaN ignored
nanmax(data) ==
    LET S == {e \in Elems(data) : e[2].k # "nan"}
        F == {e[2].n : e \in S}
    IN  IF S = {} THEN NaN
        ELSE IF \E e \in S : e[2].k = "inf" THEN Inf
        ELSE Num(CHOOSE m \in F : \A x \in F : m >= x)

\* np.nanmean: the mean of the elements, NaN ignored
nanmean(data) ==
    LET S == {e \in Elems(data) : e[2].k # "nan"}
    IN  IF S = {} THEN NaN
        ELSE IF \E e \in S : e[2].k = "inf" THEN Inf
        ELSE Rat(SumOf(S), Cardinality(S))

----------------------------------------------------------------------------
(* The container abstraction of h5py: objects, groups, datasets *)

\* an h5py.Group stored as an entry of a section (has no dataset properties)
GroupObj ==
    [kind |-> "group", shape |-> <<>>, dtype |-> "", chunks |-> None,
     filters |-> <<>>, fletcher32 |-> FALSE, attrs |-> Empty, data |-> Empty]

\* an h5py.Dataset with its creation properties, attributes and elements
Dataset(shape, dtype, chunks, filters, fletcher32, attrs, data) ==
    [kind |-> "dataset", shape |-> shape, dtype |-> dtype, chunks |-> chunks,
     filters |-> filters, fletcher32 |-> fletcher32, attrs |-> attrs,
     data |-> data]

\* isinstance(src, h5py.Dataset)
IsDataset(obj) == obj.kind = "dataset"

\* `name in group`
HasGroup(c, sec) == sec \in DOMAIN c.groups

HasEntry(c, sec, name) == HasGroup(c, sec) /\ name \in DOMAIN c.groups[sec]

\* Group.require_group(name): open the group, create it empty when missing
require_group(c, sec) ==
    IF HasGroup(c, sec) THEN c
    ELSE [c EXCEPT !.groups = (sec :> Empty) @@ c.groups]

\* bind `name` in group `sec` of container c to obj
PutObj(c, sec, name, obj) ==
    [c EXCEPT !.groups = (sec :> ((name :> obj) @@ c.groups[sec])) @@ c.groups]

\* create_plist.get_filter_by_id(id): the sequence of the filters of that id
\* in the pipeline (empty when the filter is absent, i.e. None)
get_filter_by_id(obj, id) == SelectSeq(obj.filters, LAMBDA f : f.id = id)

\* filter_args[1][0] does not exist: the Zstandard filter carries no parameter
FilterArgsMissing(obj) ==
    LET filter_args == get_filter_by_id(obj, ZstdId)
    IN  filter_args # <<>> /\ filter_args[1].cd = <<>>

\* a test that asks for a level above 5
is_properly_compressed_strict(h5obj) ==
    LET filter_args == get_filter_by_id(h5obj, ZstdId)
    IN  filter_args # <<>> /\ filter_args[1].cd[1] > MinLevel

\* is_properly_compressed(h5obj), defined when ~FilterArgsMissing(h5obj)
is_properly_compressed(h5obj) ==
    LET filter_args == get_filter_by_id(h5obj, ZstdId)
    IN  filter_args # <<>> /\ filter_args[1].cd[1] >= MinLevel

\* hdf5plugin.Zstd at the level below the one that is asked for
compression_kwargs_low == <<[id |-> ZstdId, cd |-> <<MinLevel - 1>>]>>

\* hdf5plugin.Zstd() with its default level instead of clevel=5
compression_kwargs_default == <<[id |-> ZstdId, cd |-> <<MinLevel - 2>>]>>

\* hdf5plugin.Zstd(clevel=5): the filter pipeline of a re-encoded dataset
compression_kwargs == <<[id |-> ZstdId, cd |-> <<ZstdLevel>>]>>

----------------------------------------------------------------------------
(* h5py primitives used by h5ds_copy *)

Min(a, b) == IF a <= b THEN a ELSE b

\* the chunk shape h5py picks when none is given and a filter is requested
\* (guess_chunk: for a small dataset, the dataset's shape)
AutoChunks(shape) == shape

\* make_new_dset refuses a chunk shape that exceeds the shape in any dimension
BadChunks(chunks, shape) ==
    chunks # None /\ \E dim \in 1..Len(shape) : chunks[dim] > shape[dim]

\* create_dataset without the fletcher32 keyword
NewDatasetNoChecksum(shape, dtype, chunks, fletcher32, filters) ==
    Dataset(shape, dtype, IF chunks = None THEN AutoChunks(shape) ELSE chunks,
            filters, FALSE, Empty, [c \in Coords(shape) |-> Num(0)])

\* the dataset made by create_dataset: filled with the fill value 0
NewDataset(shape, dtype, chunks, fletcher32, filters) ==
    Dataset(shape, dtype, IF chunks = None THEN AutoChunks(shape) ELSE chunks,
            filters, fletcher32, Empty, [c \in Coords(shape) |-> Num(0)])

\* Dataset.iter_chunks(): the iterator's chunk index when it starts
IterStart(shape) == [dim \in 1..Len(shape) |-> 0]

\* the iterator is exhausted (StopIteration)
IterDone(idx, layout, shape) ==
    Len(shape) = 0 \/ idx[1] * layout[1] >= shape[1]

\* the region (one slice per axis) the iterator yields at chunk index idx
IterSlices(idx, layout, shape) ==
    [dim \in 1..Len(shape) |->
        [start |-> idx[dim] * layout[dim],
         stop  |-> Min((idx[dim] + 1) * layout[dim], shape[dim])]]

\* the chunk index after yielding: advance the last axis, carry to the left
RECURSIVE IterAdvance(_, _, _, _)
IterAdvance(idx, layout, shape, dim) ==
    LET up == [idx EXCEPT ![dim] = idx[dim] + 1]
    IN  IF up[dim] * layout[dim] < shape[dim] THEN up
        ELSE IF dim > 1
             THEN IterAdvance([up EXCEPT ![dim] = 0], layout, shape, dim - 1)
             ELSE up

InRegion(c, region) ==
    \A dim \in 1..Len(c) :
        region[dim].start <= c[dim] /\ c[dim] < region[dim].stop

\* a chunk copy that leaves out the last row of every region
WriteRegionShort(dstdata, srcdata, region) ==
    [c \in DOMAIN dstdata |->
        IF InRegion(c, region) /\ c[1] + 1 < region[1].stop
        THEN srcdata[c] ELSE dstdata[c]]

\* dst[region] = src[region]
WriteRegion(dstdata, srcdata, region) ==
    [c \in DOMAIN dstdata |->
        IF InRegion(c, region) THEN srcdata[c] ELSE dstdata[c]]

\* the number of elements of a region
RegionSize(shape, region) == Cardinality({c \in Coords(shape) : InRegion(c, region)})

\* an attribute copy that keeps the value the destination holds already
CopyAttrsKeepOld(dstattrs, srcattrs) ==
    [key \in DOMAIN dstattrs \cup DOMAIN srcattrs |->
        IF key \in DOMAIN dstattrs THEN dstattrs[key] ELSE srcattrs[key]]

\* `for key in src.attrs: dst.attrs[key] = src.attrs[key]`
CopyAttrs(dstattrs, srcattrs) ==
    [key \in DOMAIN dstattrs \cup DOMAIN srcattrs |->
        IF key \in DOMAIN srcattrs THEN srcattrs[key] ELSE dstattrs[key]]

----------------------------------------------------------------------------
(* h5ds_copy *)

NoCall ==
    [src_sec |-> "", src_name |-> "", dst_sec |-> "", dst_name |-> "",
     ensure_compression |-> TRUE, chunks |-> None, idx |-> <<>>]

\* a fresh frame of h5ds_copy
Frame(src_sec, src_name, dst_sec, dst_name, ensure_compression) ==
    [src_sec |-> src_sec, src_name |-> src_name, dst_sec |-> dst_sec,
     dst_name |-> dst_name, ensure_compression |-> ensure_compression,
     chunks |-> None, idx |-> <<>>]

\* dst_name = dst_name or src_name (None and "" are both falsy)
DstName(c) == IF c.dst_name = "" THEN c.src_name ELSE c.dst_name

\* src = src_loc[src_name]
SrcObj(c) == src.groups[c.src_sec][c.src_name]

\* dst_loc[dst_name]
DstObj(c) == dst.groups[c.dst_sec][DstName(c)]

\* a correction that takes the whole shape of the source as the chunk shape
PlanChunksShape(s) ==
    IF s.chunks # None /\ s.chunks[1] > s.shape[1] THEN s.shape ELSE s.chunks

\* the source's chunk shape taken as it is (no correction of axis 0)
PlanChunksAsIs(s) == s.chunks

\* the chunk shape of the re-encoded dataset
PlanChunks(s) ==
    IF s.chunks # None /\ s.chunks[1] > s.shape[1]
    THEN [s.chunks EXCEPT ![1] = s.shape[1]]
    ELSE s.chunks

\* a branch that re-encodes whatever ensure_compression says
ReencodeAlways(c) ==
    IF FilterArgsMissing(SrcObj(c)) THEN FALSE
    ELSE ~is_properly_compressed(SrcObj(c))

\* the branch `ensure_compression and not is_properly_compressed(src)`
Reencode(c) == c.ensure_compression /\ ~is_properly_compressed(SrcObj(c))

Ev(op, sec, name, origin, n) ==
    [op |-> op, sec |-> sec, name |-> name, origin |-> origin, n |-> n]

\* an exception leaves the running call: nothing catches it
Raise(e) ==
    /\ pc' = "raised"
    /\ err' = e
    /\ call' = NoCall
    /\ todo' = {}

\* where h5ds_copy returns to
ReturnPc(c) ==
    IF entry = "h5ds_copy" THEN "done"
    ELSE CASE c.src_sec = "logs" -> "logs_loop"
           [] c.src_sec = "tables" -> "tables_loop"
           [] OTHER -> "feat_copied"

\* line 92-93, 134-136: the named source object is not a dataset
h5ds_not_dataset ==
    /\ pc = "h5ds_copy"
    /\ ~IsDataset(SrcObj(call))
    /\ Raise("NotADataset")
    /\ log' = Append(log, Ev("raise", call.src_sec, call.src_name, "", 0))
    /\ UNCHANGED <<src, dst0, prev, dst, entry, args>>

\* line 94, 152: is_properly_compressed indexes a parameter that is not there
h5ds_filter_error ==
    /\ pc = "h5ds_copy"
    /\ IsDataset(SrcObj(call))
    /\ call.ensure_compression
    /\ FilterArgsMissing(SrcObj(call))
    /\ Raise("IndexError")
    /\ log' = Append(log, Ev("raise", call.src_sec, call.src_name, "", 0))
    /\ UNCHANGED <<src, dst0, prev, dst, entry, args>>

\* line 94-118: the re-encoding path up to create_dataset
h5ds_create ==
    /\ pc = "h5ds_copy"
    /\ IsDataset(SrcObj(call))
    /\ ~(call.ensure_compression /\ FilterArgsMissing(SrcObj(call)))
    /\ Reencode(call)
    /\ LET s == SrcObj(call)
           chunks == PlanChunks(s)
       IN  IF HasEntry(dst, call.dst_sec, DstName(call))
           THEN /\ Raise("NameExists")
                /\ log' = Append(log, Ev("raise", call.dst_sec, DstName(call), call.src_name, 0))
                /\ UNCHANGED dst
           ELSE IF BadChunks(chunks, s.shape)
           THEN /\ Raise("BadChunks")
                /\ log' = Append(log, Ev("raise", call.dst_sec, DstName(call), call.src_name, 0))
                /\ UNCHANGED dst
           ELSE /\ dst' = PutObj(dst, call.dst_sec, DstName(call),
                                 NewDataset(s.shape, s.dtype, chunks, TRUE,
                                            compression_kwargs))
                /\ call' = [call EXCEPT !.chunks = chunks,
                                        !.idx = IterStart(s.shape)]
                /\ pc' = "h5ds_write"
                /\ log' = Append(log, Ev("create", call.dst_sec, DstName(call), call.src_name, 0))
                /\ UNCHANGED <<todo, err>>
    /\ UNCHANGED <<src, dst0, prev, entry, args>>

\* a whole-array transfer that writes nothing
h5ds_write_none ==
    /\ pc = "h5ds_write"
    /\ call.chunks = None
    /\ log' = Append(log, Ev("write", call.dst_sec, DstName(call), call.src_name, 0))
    /\ pc' = "h5ds_attrs"
    /\ UNCHANGED <<src, dst0, prev, dst, entry, args, todo, call, err>>

\* line 119-120: dst[:] = src[:]
h5ds_write_all ==
    /\ pc = "h5ds_write"
    /\ call.chunks = None
    /\ LET s == SrcObj(call)
       IN  /\ dst' = PutObj(dst, call.dst_sec, DstName(call),
                            [DstObj(call) EXCEPT !.data = s.data])
           /\ log' = Append(log, Ev("write", call.dst_sec, DstName(call), call.src_name,
                                    Cardinality(DOMAIN s.data)))
    /\ pc' = "h5ds_attrs"
    /\ UNCHANGED <<src, dst0, prev, entry, args, todo, call, err>>

\* a chunk loop that moves the whole array in its first turn
h5ds_write_chunk_whole ==
    /\ pc = "h5ds_write"
    /\ call.chunks # None
    /\ LET s == SrcObj(call)
       IN  /\ dst' = PutObj(dst, call.dst_sec, DstName(call),
                            [DstObj(call) EXCEPT !.data = s.data])
           /\ log' = Append(log, Ev("write", call.dst_sec, DstName(call), call.src_name,
                                    Cardinality(DOMAIN s.data)))
    /\ pc' = "h5ds_attrs"
    /\ UNCHANGED <<src, dst0, prev, entry, args, todo, call, err>>

\* line 121-123: one turn of `for chunk in src.iter_chunks()`
h5ds_write_chunk ==
    /\ pc = "h5ds_write"
    /\ call.chunks # None
    /\ LET s == SrcObj(call)
       IN  IF IterDone(call.idx, s.chunks, s.shape)
           THEN /\ pc' = "h5ds_attrs"
                /\ UNCHANGED <<dst, call, log>>
           ELSE LET chunk == IterSlices(call.idx, s.chunks, s.shape)
                IN  /\ dst' = PutObj(dst, call.dst_sec, DstName(call),
                                     [DstObj(call) EXCEPT
                                         !.data = WriteRegion(@, s.data, chunk)])
                    /\ call' = [call EXCEPT !.idx =
                                   IterAdvance(@, s.chunks, s.shape, Len(s.shape))]
                    /\ log' = Append(log, Ev("write", call.dst_sec, DstName(call),
                                             call.src_name, RegionSize(s.shape, chunk)))
                    /\ UNCHANGED pc
    /\ UNCHANGED <<src, dst0, prev, entry, args, todo, err>>

\* a re-encoding path that returns without writing the attributes
h5ds_attrs_skipped ==
    /\ pc = "h5ds_attrs"
    /\ log' = Append(log, Ev("dsattrs", call.dst_sec, DstName(call), call.src_name, 0))
    /\ pc' = ReturnPc(call)
    /\ UNCHANGED <<src, dst0, prev, dst, entry, args, todo, call, err>>

\* line 124-126, 137: write the attributes and return dst_loc[dst_name]
h5ds_attrs ==
    /\ pc = "h5ds_attrs"
    /\ dst' = PutObj(dst, call.dst_sec, DstName(call),
                     [DstObj(call) EXCEPT !.attrs = CopyAttrs(@, SrcObj(call).attrs)])
    /\ log' = Append(log, Ev("dsattrs", call.dst_sec, DstName(call), call.src_name, 0))
    /\ pc' = ReturnPc(call)
    /\ UNCHANGED <<src, dst0, prev, entry, args, todo, call, err>>

\* a verbatim copy that replaces an entry of the same name
h5ds_verbatim_overwrite ==
    /\ pc = "h5ds_copy"
    /\ IsDataset(SrcObj(call))
    /\ ~(call.ensure_compression /\ FilterArgsMissing(SrcObj(call)))
    /\ ~Reencode(call)
    /\ dst' = PutObj(dst, call.dst_sec, DstName(call), SrcObj(call))
    /\ log' = Append(log, Ev("copy", call.dst_sec, DstName(call), call.src_name, 0))
    /\ pc' = ReturnPc(call)
    /\ UNCHANGED <<src, dst0, prev, entry, args, todo, call, err>>

\* line 127-133, 137: h5py.h5o.copy, the dataset as it is
h5ds_verbatim ==
    /\ pc = "h5ds_copy"
    /\ IsDataset(SrcObj(call))
    /\ ~(call.ensure_compression /\ FilterArgsMissing(SrcObj(call)))
    /\ ~Reencode(call)
    /\ IF HasEntry(dst, call.dst_sec, DstName(call))
       THEN /\ Raise("NameExists")
            /\ log' = Append(log, Ev("raise", call.dst_sec, DstName(call), call.src_name, 0))
            /\ UNCHANGED dst
       ELSE /\ dst' = PutObj(dst, call.dst_sec, DstName(call), SrcObj(call))
            /\ log' = Append(log, Ev("copy", call.dst_sec, DstName(call), call.src_name, 0))
            /\ pc' = ReturnPc(call)
            /\ UNCHANGED <<todo, call, err>>
    /\ UNCHANGED <<src, dst0, prev, entry, args>>

\* the steps of h5ds_copy
h5ds_copy ==
    \/ h5ds_not_dataset
    \/ h5ds_filter_error
    \/ h5ds_create
    \/ h5ds_write_all
    \/ h5ds_write_chunk
    \/ h5ds_attrs
    \/ h5ds_verbatim

----------------------------------------------------------------------------
(* The feature registry (dclab.definitions) *)

ScalarFeatures == {"deform"}
NonScalarFeatures == {"image"}

\* feature_exists(name, scalar_only)
feature_exists(name, scalar_only) ==
    \/ name \in ScalarFeatures
    \/ ~scalar_only /\ name \in NonScalarFeatures

\* scalar_feature_exists(name)
scalar_feature_exists(name) == feature_exists(name, TRUE)

----------------------------------------------------------------------------
(* rtdc_copy *)

NoArgs ==
    [features |-> "", include_logs |-> FALSE, include_tables |-> FALSE,
     meta_prefix |-> ""]

\* the features branch taken whatever the mode
WantFeaturesAlways(a) == TRUE

\* line 43: features != "none"
WantFeatures(a) == a.features # "none"

\* scalar_only that is never set
ScalarOnlyNever(a) == FALSE

\* line 44: scalar_only = features == "scalar"
ScalarOnly(a) == a.features = "scalar"

\* a selection that takes every entry of events
RetainedAll(feat, a) == TRUE

\* line 47: the entries of events that are copied
Retained(feat, a) == feature_exists(feat, ScalarOnly(a))

\* a destination name that drops the prefix
MetaNameBare(a, key) == key

\* the prefix put behind the name
MetaNameSuffix(a, key) == key \o a.meta_prefix

\* line 32, 41: the destination name of a log or a table
MetaName(a, key) == a.meta_prefix \o key

\* line 53-58: np.nanmin and np.nanmax raise ValueError on an array without
\* elements (a reduction with no identity); np.nanmean answers NaN
ReduceFails(d) ==
    /\ DOMAIN d.data = {}
    /\ ~({"min", "max"} \subseteq DOMAIN d.attrs)

\* a loop that stops after the first statistic it has set
AnnotateFirst(d) ==
    LET absent == {"min", "max", "mean"} \ DOMAIN d.attrs
        first == IF "min" \in absent THEN "min"
                 ELSE IF "max" \in absent THEN "max" ELSE "mean"
    IN  IF absent = {} THEN d.attrs
        ELSE [attr \in DOMAIN d.attrs \cup {first} |->
                IF attr \in DOMAIN d.attrs THEN d.attrs[attr]
                ELSE CASE attr = "min" -> nanmin(d.data)
                       [] attr = "max" -> nanmax(d.data)
                       [] OTHER -> nanmean(d.data)]

\* the statistics set without the test `attr not in dst.attrs`
AnnotateAlways(d) ==
    [attr \in DOMAIN d.attrs \cup {"min", "max", "mean"} |->
        CASE attr = "min" -> nanmin(d.data)
          [] attr = "max" -> nanmax(d.data)
          [] attr = "mean" -> nanmean(d.data)
          [] OTHER -> d.attrs[attr]]

\* line 53-58: set each of min, max, mean that the dataset does not carry
Annotate(d) ==
    LET stat == [attr \in {"min", "max", "mean"} |->
                    CASE attr = "min" -> nanmin(d.data)
                      [] attr = "max" -> nanmax(d.data)
                      [] OTHER -> nanmean(d.data)]
    IN  [attr \in DOMAIN d.attrs \cup {"min", "max", "mean"} |->
            IF attr \in DOMAIN d.attrs THEN d.attrs[attr] ELSE stat[attr]]

\* line 21-23: the root attributes
rtdc_meta ==
    /\ pc = "meta"
    /\ dst' = [dst EXCEPT !.attrs = CopyAttrs(@, src.attrs)]
    /\ log' = Append(log, Ev("attrs", "", "", "", 0))
    /\ pc' = "logs"
    /\ UNCHANGED <<src, dst0, prev, entry, args, todo, call, err>>

\* a logs section entered whatever include_logs says
rtdc_logs_always ==
    /\ pc = "logs"
    /\ IF HasGroup(src, "logs")
       THEN /\ dst' = require_group(dst, "logs")
            /\ todo' = DOMAIN src.groups["logs"]
            /\ log' = Append(log, Ev("require_group", "logs", "", "", 0))
            /\ pc' = "logs_loop"
       ELSE /\ pc' = "tables"
            /\ UNCHANGED <<dst, todo, log>>
    /\ UNCHANGED <<src, dst0, prev, entry, args, call, err>>

\* line 25-28: enter the logs section
rtdc_logs ==
    /\ pc = "logs"
    /\ IF args.include_logs /\ HasGroup(src, "logs")
       THEN /\ dst' = require_group(dst, "logs")
            /\ todo' = DOMAIN src.groups["logs"]
            /\ log' = Append(log, Ev("require_group", "logs", "", "", 0))
            /\ pc' = "logs_loop"
       ELSE /\ pc' = "tables"
            /\ UNCHANGED <<dst, todo, log>>
    /\ UNCHANGED <<src, dst0, prev, entry, args, call, err>>

\* a logs loop that passes over entries that are not datasets
rtdc_logs_loop_skip_groups ==
    /\ pc = "logs_loop"
    /\ IF todo = {}
       THEN /\ pc' = "tables"
            /\ UNCHANGED <<todo, call>>
       ELSE \E lkey \in todo :
                /\ todo' = todo \ {lkey}
                /\ IF IsDataset(src.groups["logs"][lkey])
                   THEN /\ call' = Frame("logs", lkey, "logs", MetaName(args, lkey), TRUE)
                        /\ pc' = "h5ds_copy"
                   ELSE UNCHANGED <<pc, call>>
    /\ UNCHANGED <<src, dst0, prev, dst, entry, args, err, log>>

\* line 28-32: one turn of `for lkey in src_h5file["logs"]`
rtdc_logs_loop ==
    /\ pc = "logs_loop"
    /\ IF todo = {}
       THEN /\ pc' = "tables"
            /\ UNCHANGED <<todo, call>>
       ELSE \E lkey \in todo :
                /\ todo' = todo \ {lkey}
                /\ call' = Frame("logs", lkey, "logs", MetaName(args, lkey), TRUE)
                /\ pc' = "h5ds_copy"
    /\ UNCHANGED <<src, dst0, prev, dst, entry, args, err, log>>

\* line 34-37: enter the tables section
rtdc_tables ==
    /\ pc = "tables"
    /\ IF args.include_tables /\ HasGroup(src, "tables")
       THEN /\ dst' = require_group(dst, "tables")
            /\ todo' = DOMAIN src.groups["tables"]
            /\ log' = Append(log, Ev("require_group", "tables", "", "", 0))
            /\ pc' = "tables_loop"
       ELSE /\ pc' = "features"
            /\ UNCHANGED <<dst, todo, log>>
    /\ UNCHANGED <<src, dst0, prev, entry, args, call, err>>

\* line 37-41: one turn of `for tkey in src_h5file["tables"]`
rtdc_tables_loop ==
    /\ pc = "tables_loop"
    /\ IF todo = {}
       THEN /\ pc' = "features"
            /\ UNCHANGED <<todo, call>>
       ELSE \E tkey \in todo :
                /\ todo' = todo \ {tkey}
                /\ call' = Frame("tables", tkey, "tables", MetaName(args, tkey), TRUE)
                /\ pc' = "h5ds_copy"
    /\ UNCHANGED <<src, dst0, prev, dst, entry, args, err, log>>

\* an events section that looks the source group up before require_group
rtdc_features_lookup_first ==
    /\ pc = "features"
    /\ IF WantFeatures(args)
       THEN IF HasGroup(src, "events")
            THEN /\ dst' = require_group(dst, "events")
                 /\ todo' = DOMAIN src.groups["events"]
                 /\ log' = Append(Append(log,
                               Ev("require_group", "events", "", "", 0)),
                               Ev("open", "events", "", "", 0))
                 /\ pc' = "events_loop"
                 /\ UNCHANGED <<call, err>>
            ELSE /\ Raise("KeyError")
                 /\ log' = Append(log, Ev("raise", "events", "", "", 0))
                 /\ UNCHANGED dst
       ELSE /\ pc' = "done"
            /\ UNCHANGED <<dst, todo, call, err, log>>
    /\ UNCHANGED <<src, dst0, prev, entry, args>>

\* an events section that writes the root attributes once more on entry
rtdc_features_attrs ==
    /\ pc = "features"
    /\ IF WantFeatures(args)
       THEN /\ dst' = require_group([dst EXCEPT !.attrs = CopyAttrs(@, src.attrs)],
                                    "events")
            /\ IF HasGroup(src, "events")
               THEN /\ todo' = DOMAIN src.groups["events"]
                    /\ log' = Append(Append(Append(log,
                                  Ev("attrs", "", "", "", 0)),
                                  Ev("require_group", "events", "", "", 0)),
                                  Ev("open", "events", "", "", 0))
                    /\ pc' = "events_loop"
                    /\ UNCHANGED <<call, err>>
               ELSE /\ Raise("KeyError")
                    /\ log' = Append(Append(Append(log,
                                  Ev("attrs", "", "", "", 0)),
                                  Ev("require_group", "events", "", "", 0)),
                                  Ev("raise", "events", "", "", 0))
       ELSE /\ pc' = "done"
            /\ UNCHANGED <<dst, todo, call, err, log>>
    /\ UNCHANGED <<src, dst0, prev, entry, args>>

\* an events section that puts the destination back when the lookup fails
rtdc_features_rollback ==
    /\ pc = "features"
    /\ IF WantFeatures(args)
       THEN IF HasGroup(src, "events")
            THEN /\ dst' = require_group(dst, "events")
                 /\ todo' = DOMAIN src.groups["events"]
                 /\ log' = Append(Append(log,
                               Ev("require_group", "events", "", "", 0)),
                               Ev("open", "events", "", "", 0))
                 /\ pc' = "events_loop"
                 /\ UNCHANGED <<call, err>>
            ELSE /\ dst' = dst0
                 /\ Raise("KeyError")
                 /\ log' = Append(Append(log,
                               Ev("require_group", "events", "", "", 0)),
                               Ev("raise", "events", "", "", 0))
       ELSE /\ pc' = "done"
            /\ UNCHANGED <<dst, todo, call, err, log>>
    /\ UNCHANGED <<src, dst0, prev, entry, args>>

\* line 43-46: enter the events section
rtdc_features ==
    /\ pc = "features"
    /\ IF WantFeatures(args)
       THEN /\ dst' = require_group(dst, "events")
            /\ IF HasGroup(src, "events")
               THEN /\ todo' = DOMAIN src.groups["events"]
                    /\ log' = Append(Append(log,
                                  Ev("require_group", "events", "", "", 0)),
                                  Ev("open", "events", "", "", 0))
                    /\ pc' = "events_loop"
                    /\ UNCHANGED <<call, err>>
               ELSE /\ Raise("KeyError")
                    /\ log' = Append(Append(log,
                                  Ev("require_group", "events", "", "", 0)),
                                  Ev("raise", "events", "", "", 0))
       ELSE /\ pc' = "done"
            /\ UNCHANGED <<dst, todo, call, err, log>>
    /\ UNCHANGED <<src, dst0, prev, entry, args>>

\* an events loop that passes over entries that are groups
rtdc_events_loop_skip_groups ==
    /\ pc = "events_loop"
    /\ IF todo = {}
       THEN /\ pc' = "done"
            /\ UNCHANGED <<todo, call>>
       ELSE \E feat \in todo :
                /\ todo' = todo \ {feat}
                /\ IF Retained(feat, args) /\ IsDataset(src.groups["events"][feat])
                   THEN /\ call' = Frame("events", feat, "events", "", TRUE)
                        /\ pc' = "h5ds_copy"
                   ELSE UNCHANGED <<pc, call>>
    /\ UNCHANGED <<src, dst0, prev, dst, entry, args, err, log>>

\* line 46-50: one turn of `for feat in src_h5file["events"]`
rtdc_events_loop ==
    /\ pc = "events_loop"
    /\ IF todo = {}
       THEN /\ pc' = "done"
            /\ UNCHANGED <<todo, call>>
       ELSE \E feat \in todo :
                /\ todo' = todo \ {feat}
                /\ IF Retained(feat, args)
                   THEN /\ call' = Frame("events", feat, "events", "", TRUE)
                        /\ pc' = "h5ds_copy"
                   ELSE UNCHANGED <<pc, call>>
    /\ UNCHANGED <<src, dst0, prev, dst, entry, args, err, log>>

\* statistics written to the dataset of the source file
rtdc_stats_on_source ==
    /\ pc = "feat_copied"
    /\ IF scalar_feature_exists(call.src_name)
       THEN /\ src' = PutObj(src, "events", call.src_name,
                             [SrcObj(call) EXCEPT !.attrs = Annotate(SrcObj(call))])
            /\ log' = Append(log, Ev("stats", "events", DstName(call), call.src_name, 0))
       ELSE UNCHANGED <<src, log>>
    /\ pc' = "events_loop"
    /\ UNCHANGED <<dst, dst0, prev, entry, args, todo, call, err>>

\* line 51-58: the statistics of a scalar feature
rtdc_stats ==
    /\ pc = "feat_copied"
    /\ ~(scalar_feature_exists(call.src_name) /\ ReduceFails(DstObj(call)))
    /\ IF scalar_feature_exists(call.src_name)
       THEN /\ dst' = PutObj(dst, "events", DstName(call),
                             [DstObj(call) EXCEPT !.attrs = Annotate(DstObj(call))])
            /\ log' = Append(log, Ev("stats", "events", DstName(call), call.src_name, 0))
       ELSE UNCHANGED <<dst, log>>
    /\ pc' = "events_loop"
    /\ UNCHANGED <<src, dst0, prev, entry, args, todo, call, err>>

\* line 53-58: ufunc(dst) raises for a scalar feature without elements;
\* nothing was written by the loop before it
rtdc_stats_error ==
    /\ pc = "feat_copied"
    /\ scalar_feature_exists(call.src_name)
    /\ ReduceFails(DstObj(call))
    /\ Raise("ValueError")
    /\ log' = Append(log, Ev("raise", "events", DstName(call), call.src_name, 0))
    /\ UNCHANGED <<src, dst0, prev, dst, entry, args>>

----------------------------------------------------------------------------
(* The callers *)

FeatureModes == {"all", "scalar", "none"}
Prefixes == {"", "exp1_"}

\* line 14-19: a caller invokes rtdc_copy
rtdc_call ==
    /\ pc = "start"
    /\ \E features \in FeatureModes, include_logs \in BOOLEAN,
          include_tables \in BOOLEAN, meta_prefix \in Prefixes :
          args' = [features |-> features, include_logs |-> include_logs,
                   include_tables |-> include_tables,
                   meta_prefix |-> meta_prefix]
    /\ entry' = "rtdc_copy"
    /\ pc' = "meta"
    /\ UNCHANGED <<src, dst0, prev, dst, todo, call, err, log>>

\* line 16-19: a caller invokes rtdc_copy(src, dst), every option at its default
rtdc_default_call ==
    /\ pc = "start"
    /\ args' = [features |-> "all", include_logs |-> TRUE,
                include_tables |-> TRUE, meta_prefix |-> ""]
    /\ entry' = "rtdc_copy"
    /\ pc' = "meta"
    /\ UNCHANGED <<src, dst0, prev, dst, todo, call, err, log>>

\* line 61-62: a caller invokes h5ds_copy on an entry of a source group
h5ds_call ==
    /\ pc = "start"
    /\ \E sec \in DOMAIN src.groups \cap DOMAIN dst.groups :
          \E src_name \in DOMAIN src.groups[sec], dst_name \in {"", "copy"},
             ensure_compression \in BOOLEAN :
             call' = Frame(sec, src_name, sec, dst_name, ensure_compression)
    /\ entry' = "h5ds_copy"
    /\ pc' = "h5ds_copy"
    /\ UNCHANGED <<src, dst0, prev, dst, args, todo, err, log>>

----------------------------------------------------------------------------
(* The containers the calls are run on *)

\* an array whose elements are all different
IndexData(shape) ==
    [c \in Coords(shape) |->
        Num(10 * c[1] + (IF Len(c) = 2 THEN c[2] ELSE 0) + 1)]

Container(attrs, groups) == [attrs |-> attrs, groups |-> groups]

NoFilter == <<>>
Gzip == <<[id |-> 1, cd |-> <<4>>]>>
Zstd(clevel) == <<[id |-> ZstdId, cd |-> <<clevel>>]>>
ZstdNoArgs == <<[id |-> ZstdId, cd |-> <<>>]>>

\* attributes a source dataset may carry
AttrPool ==
    { Empty,
      ("min" :> Num(-7)),
      ("min" :> Num(-7)) @@ ("max" :> Num(70)) @@ ("mean" :> Num(0))
          @@ ("unit" :> Num(2)) }

\* datasets of every shape, chunk shape, filter, checksum and attribute set
DsShapes == {<<n>> : n \in 1..MaxLen} \cup {<<n, 2>> : n \in 1..(MaxLen - 1)}

DsChunks(shape) ==
    {None} \cup
    ( IF Len(shape) = 1
      THEN {<<c>> : c \in 1..(MaxLen + 1)}
      ELSE {<<c, e>> : c \in 1..MaxLen, e \in 1..3} )

DsFilters == {NoFilter, Gzip, Zstd(3), Zstd(5), Zstd(7), ZstdNoArgs}

\* an HDF5 filter (compression, checksum) needs the chunked layout
Storable(chunks, filters, fletcher32) ==
    chunks = None => (filters = NoFilter /\ ~fletcher32)

\* the element types of the datasets of the pool
DsDtypes == {"float64", "uint8"}

DsPool ==
    UNION { { Dataset(shape, dtype, chunks, filters, fletcher32, attrs,
                      IndexData(shape)) :
                dtype \in DsDtypes, chunks \in DsChunks(shape),
                filters \in DsFilters, fletcher32 \in BOOLEAN,
                attrs \in AttrPool }
            : shape \in DsShapes }

\* a dataset the destination holds before the call
OldDataset ==
    Dataset(<<1>>, "float64", None, NoFilter, FALSE, ("unit" :> Num(5)),
            [c \in Coords(<<1>>) |-> Num(99)])

\* no call ran before the running one
NoPrev ==
    [called |-> FALSE, src |-> Container(Empty, Empty), args |-> NoArgs,
     log |-> <<>>]

Idle ==
    /\ dst0 = dst
    /\ prev = NoPrev
    /\ pc = "start"
    /\ entry = ""
    /\ args = NoArgs
    /\ todo = {}
    /\ call = NoCall
    /\ err = ""
    /\ log = <<>>

\* h5ds_copy called on the one entry "d" of a source group
InitDs ==
    /\ src \in { Container(Empty, "logs" :> ("d" :> obj)) :
                   obj \in {GroupObj} \cup
                           {d \in DsPool : Storable(d.chunks, d.filters, d.fletcher32)} }
    /\ dst \in { Container(Empty, "logs" :> Empty),
                  Container(Empty, "logs" :> ("d" :> OldDataset)) }
    /\ Idle

NextDs == h5ds_call \/ h5ds_copy

SpecDs == InitDs /\ [][NextDs]_vars

\* the datasets of the containers rtdc_copy is run on: uncompressed
\* (contiguous), a foreign codec, Zstandard below and at the required level,
\* Zstandard without a parameter, and an array without elements
RtdcPool ==
    { Dataset(<<2>>, "float64", None, NoFilter, FALSE, Empty, IndexData(<<2>>)),
      Dataset(<<2>>, "float64", <<1>>, Gzip, TRUE, Empty, IndexData(<<2>>)),
      Dataset(<<2>>, "float64", <<3>>, Zstd(3), FALSE, ("min" :> Num(-7)),
              IndexData(<<2>>)),
      Dataset(<<2>>, "float64", <<3>>, Zstd(5), FALSE, ("min" :> Num(-7)),
              IndexData(<<2>>)),
      Dataset(<<2>>, "float64", <<2>>, Zstd(7), TRUE,
              ("min" :> Num(-7)) @@ ("max" :> Num(70)) @@ ("mean" :> Num(0)),
              IndexData(<<2>>)),
      Dataset(<<2>>, "float64", <<2>>, ZstdNoArgs, FALSE, Empty,
              IndexData(<<2>>)),
      Dataset(<<0>>, "float64", None, NoFilter, FALSE, Empty, IndexData(<<0>>)) }

LogsOpts(d) ==
    { Empty,
      "logs" :> (("session" :> d) @@ ("exp1_session" :> d)),
      "logs" :> (("session" :> GroupObj) @@ ("exp1_session" :> d)) }

TablesOpts(d) ==
    { Empty,
      "tables" :> ("t1" :> d),
      "tables" :> ("t1" :> GroupObj) }

EventNames == {"deform", "image", "bogus"}

EventsOpts(d) ==
    { Empty, "events" :> Empty, "events" :> ("bogus" :> d),
      "events" :> [n \in EventNames |-> d] }
    \cup
    { "events" :> [n \in EventNames |-> IF n = g THEN GroupObj ELSE d] :
        g \in EventNames }

SrcPool ==
    UNION { { Container("run" :> Num(1), l @@ t @@ e) :
                l \in LogsOpts(d), t \in TablesOpts(d), e \in EventsOpts(d) }
            : d \in RtdcPool }

DstPool ==
    { Container(Empty, Empty),
      Container(("run" :> Num(0)) @@ ("user" :> Num(4)),
                ("logs" :> ("exp1_session" :> OldDataset))
                  @@ ("events" :> ("temp" :> OldDataset))) }

InitRtdc ==
    /\ src \in SrcPool
    /\ dst \in DstPool
    /\ Idle

Next ==
    \/ rtdc_call
    \/ rtdc_meta
    \/ rtdc_logs
    \/ rtdc_logs_loop
    \/ rtdc_tables
    \/ rtdc_tables_loop
    \/ rtdc_features
    \/ rtdc_events_loop
    \/ rtdc_stats
    \/ rtdc_stats_error
    \/ h5ds_copy

Init == InitRtdc

Spec == Init /\ [][Next]_vars

\* the datasets of the sources that are copied one after the other into one
\* destination: one that is re-encoded, one that is copied verbatim; every
\* entry is a dataset and every Zstandard filter has its parameter, so the
\* isinstance test and the filter lookup of h5ds_copy do not fail here
MergeDs ==
    { Dataset(<<2>>, "float64", None, NoFilter, FALSE, Empty, IndexData(<<2>>)),
      Dataset(<<2>>, "float64", <<2>>, Zstd(5), TRUE, ("unit" :> Num(2)),
              [c \in Coords(<<2>>) |-> Num(7)]) }

\* the feature of these sources: chunked, with a foreign codec
MergeFeature ==
    Dataset(<<2>>, "float64", <<1>>, Gzip, FALSE, Empty, IndexData(<<2>>))

MergePool ==
    UNION { { Container("run" :> Num(1),
                        l @@ t @@ ("events" :> ("deform" :> MergeFeature))) :
                l \in { "logs" :> ("session" :> d),
                        "logs" :> ("exp1_session" :> d),
                        "logs" :> (("session" :> d) @@ ("exp1_session" :> d)) },
                t \in { Empty, "tables" :> ("t1" :> d) } }
            : d \in MergeDs }

\* line 14-19: after rtdc_copy returned, a caller invokes it again on the
\* same destination, with the same or another source
rtdc_call_again ==
    /\ pc = "done"
    /\ entry = "rtdc_copy"
    /\ ~prev.called
    /\ \E B \in MergePool, features \in {"all", "none"},
          include_tables \in BOOLEAN, meta_prefix \in Prefixes :
          /\ src' = B
          /\ args' = [features |-> features, include_logs |-> TRUE,
                      include_tables |-> include_tables,
                      meta_prefix |-> meta_prefix]
    /\ prev' = [called |-> TRUE, src |-> src, args |-> args, log |-> log]
    /\ dst0' = dst
    /\ pc' = "meta"
    /\ log' = <<>>
    /\ UNCHANGED <<dst, entry, todo, call, err>>

InitMerge ==
    /\ src \in MergePool
    /\ dst = Container(Empty, Empty)
    /\ Idle

NextMerge ==
    \/ rtdc_call
    \/ rtdc_call_again
    \/ rtdc_meta
    \/ rtdc_logs
    \/ rtdc_logs_loop
    \/ rtdc_tables
    \/ rtdc_tables_loop
    \/ rtdc_features
    \/ rtdc_events_loop
    \/ rtdc_stats
    \/ h5ds_create
    \/ h5ds_write_all
    \/ h5ds_write_chunk
    \/ h5ds_attrs
    \/ h5ds_verbatim

SpecMerge == InitMerge /\ [][NextMerge]_vars

\* line 61-62: after h5ds_copy returned, a caller copies the dataset it made
\* once more, from the first destination into a fresh group, with
\* ensure_compression=True
h5ds_call_again ==
    /\ pc = "done"
    /\ entry = "h5ds_copy"
    /\ ~prev.called
    /\ src' = dst
    /\ dst' = Container(Empty, "logs" :> Empty)
    /\ dst0' = dst'
    /\ call' = Frame(call.dst_sec, DstName(call), "logs", "", TRUE)
    /\ prev' = [called |-> TRUE, src |-> src, args |-> args, log |-> log]
    /\ pc' = "h5ds_copy"
    /\ log' = <<>>
    /\ UNCHANGED <<entry, args, todo, err>>

NextAgain == h5ds_call \/ h5ds_call_again \/ h5ds_copy

SpecAgain == InitDs /\ [][NextAgain]_vars

\* the element values of the arrays whose statistics are computed
StatValues == {Num(1), Num(3), NaN, Inf}

\* uncompressed one-dimensional arrays of a scalar feature
StatArrays ==
    UNION { { Dataset(<<n>>, "float64", None, NoFilter, FALSE, Empty, data) :
                data \in [Coords(<<n>>) -> StatValues] }
            : n \in 0..MaxStat }

StatSrc ==
    { Container("run" :> Num(1), "events" :> ("deform" :> d)) : d \in StatArrays }

\* rtdc_copy with its default arguments into an empty destination
InitStat ==
    /\ src \in StatSrc \cup SrcPool
    /\ dst = Container(Empty, Empty)
    /\ Idle

NextStat ==
    \/ rtdc_default_call
    \/ rtdc_meta
    \/ rtdc_logs
    \/ rtdc_logs_loop
    \/ rtdc_tables
    \/ rtdc_tables_loop
    \/ rtdc_features
    \/ rtdc_events_loop
    \/ rtdc_stats
    \/ rtdc_stats_error
    \/ h5ds_copy

SpecStat == InitStat /\ [][NextStat]_vars

----------------------------------------------------------------------------
(* Properties *)

\* the entries of the history
Events == {log[i] : i \in 1..Len(log)}

\* the datasets the call has placed in the destination: made by
\* create_dataset (re-encoding path) or by h5o.copy (verbatim path)
Placed == {e \in Events : e.op \in {"create", "copy"}}

SrcOf(e) == src.groups[e.sec][e.origin]
DstOf(e) == dst.groups[e.sec][e.name]

\* the entry of the history at which the call raised
Last == log[Len(log)]

Returned == pc = "done" /\ entry = "rtdc_copy"

\* C1: after rtdc_copy returns normally, every dataset it placed in the
\* destination is properly compressed (Zstandard present, level >= 5),
\* whatever the compression of its source was.
C1_Compressed ==
    Returned =>
        \A e \in Placed :
            /\ ~FilterArgsMissing(DstOf(e))
            /\ is_properly_compressed(DstOf(e))

C1_Witness ==
    /\ Returned
    /\ \E e \in Placed :
          /\ e.sec = "events"
          /\ e.op = "create"
          /\ SrcOf(e).filters = Gzip
    /\ \E e \in Placed : e.sec = "logs"

C3_SameData ==
    (pc = "done" /\ entry = "h5ds_copy") =>
        \A e \in Placed :
            /\ DstOf(e).shape = SrcOf(e).shape
            /\ DOMAIN DstOf(e).data = Coords(SrcOf(e).shape)
            /\ \A c \in Coords(SrcOf(e).shape) : DstOf(e).data[c] = SrcOf(e).data[c]

C3_Witness ==
    /\ pc = "done"
    /\ entry = "h5ds_copy"
    /\ \E e \in Placed :
          /\ e.op = "create"
          /\ Len(SrcOf(e).shape) = 2
          /\ SrcOf(e).chunks # None
          /\ SrcOf(e).chunks[1] > SrcOf(e).shape[1]
          /\ SrcOf(e).chunks[2] < SrcOf(e).shape[2]
          /\ DstOf(e).chunks # SrcOf(e).chunks

\* the entries of the source events group that are groups
EventGroups ==
    IF HasGroup(src, "events")
    THEN {n \in DOMAIN src.groups["events"] : ~IsDataset(src.groups["events"][n])}
    ELSE {}

\* C4 as stated: with features 'all' or 'scalar', a group entry under the
\* source events makes rtdc_copy raise, whatever feature_exists answers for
\* its name: the call never returns normally.
C4_Original ==
    (Returned /\ WantFeatures(args)) => EventGroups = {}

\* C4 amended: with features 'all' or 'scalar', a group entry under the
\* source events whose name passes feature_exists for the selected mode makes
\* rtdc_copy raise the not-a-dataset error and stop, so the call never
\* returns normally and nothing is done after the raise; a group entry whose
\* name does not pass feature_exists is skipped and raises nothing.
C4_Amended ==
    /\ (Returned /\ WantFeatures(args)) =>
           \A n \in EventGroups : ~feature_exists(n, args.features = "scalar")
    /\ (err = "NotADataset" /\ Last.sec = "events") =>
           /\ pc = "raised"
           /\ Last.op = "raise"
           /\ Last.name \in EventGroups
           /\ feature_exists(Last.name, args.features = "scalar")
           /\ ~HasEntry(dst, "events", Last.name)

C4_Witness ==
    /\ err = "NotADataset"
    /\ Last.sec = "events"
    /\ Last.name = "image"
    /\ \E n \in DOMAIN src.groups["events"] :
          /\ feature_exists(n, args.features = "scalar")
          /\ n \notin EventGroups
          /\ ~HasEntry(dst, "events", n)

\* the entries of a source section that are not datasets
NonDatasets(sec) ==
    IF HasGroup(src, sec)
    THEN {n \in DOMAIN src.groups[sec] : ~IsDataset(src.groups[sec][n])}
    ELSE {}

\* C5: h5ds_copy on a source name that is not a dataset raises the
\* not-a-dataset error and creates nothing at dst_name; raised for an entry
\* of logs or tables inside rtdc_copy it ends the whole copy: the entry is
\* not skipped (the call cannot return normally) and no later section is
\* processed.
C5_Abort ==
    /\ err = "NotADataset" =>
           /\ pc = "raised"
           /\ Last.op = "raise"
           /\ Last.name \in NonDatasets(Last.sec)
           /\ \A e \in Placed : ~(e.sec = Last.sec /\ e.origin = Last.name)
           /\ Last.sec = "logs" =>
                  \A e \in Events : e.sec \notin {"tables", "events"}
           /\ Last.sec = "tables" =>
                  \A e \in Events : e.sec # "events"
    /\ Returned =>
           /\ (args.include_logs => NonDatasets("logs") = {})
           /\ (args.include_tables => NonDatasets("tables") = {})

C5_Witness ==
    /\ err = "NotADataset"
    /\ Last.sec = "logs"
    /\ args.include_tables
    /\ HasGroup(src, "tables")
    /\ WantFeatures(args)
    /\ HasGroup(src, "events")
    /\ ~HasGroup(dst, "tables")
    /\ ~HasGroup(dst, "events")

\* the array [1.0, NaN, 3.0, Inf]
ExampleData == <<0>> :> Num(1) @@ <<1>> :> NaN @@ <<2>> :> Num(3) @@ <<3>> :> Inf

\* the scalar feature "deform" copied by a call that returned
DeformDone == Returned /\ HasEntry(src, "events", "deform")

Leq(x, y) == y.k = "inf" \/ (x.k = "num" /\ y.k = "num" /\ x.n <= y.n)

C7_Stats ==
    (Returned /\ WantFeatures(args)) =>
        \A e \in Placed :
            (e.sec = "events" /\ scalar_feature_exists(e.name)) =>
                /\ {"min", "max", "mean"} \subseteq DOMAIN DstOf(e).attrs
                /\ \A a \in {"min", "max", "mean"} \cap DOMAIN SrcOf(e).attrs :
                       DstOf(e).attrs[a] = SrcOf(e).attrs[a]

C7_Witness ==
    /\ Returned
    /\ \E e \in Placed :
          /\ e.sec = "events"
          /\ e.op = "create"
          /\ scalar_feature_exists(e.name)
          /\ DOMAIN SrcOf(e).attrs = {"min"}
          /\ DstOf(e).attrs["min"] = Num(-7)
          /\ DstOf(e).attrs["max"] = Num(11)

\* the names of the events datasets the call has placed
PlacedEvents == {e.name : e \in {x \in Placed : x.sec = "events"}}

\* the names under events that the destination held before the call
OldEvents ==
    IF HasGroup(dst0, "events") THEN DOMAIN dst0.groups["events"] ELSE {}

\* C8: with features='scalar' rtdc_copy copies an events entry iff
\* feature_exists(name, scalar_only=True), so a non-scalar feature such as
\* image is not in the destination; with features='all' it copies an entry
\* iff feature_exists(name, scalar_only=False), so image is there.
C8_Selection ==
    Returned =>
        /\ args.features = "scalar" =>
               /\ PlacedEvents =
                      {n \in DOMAIN src.groups["events"] : feature_exists(n, TRUE)}
               /\ DOMAIN dst.groups["events"] = PlacedEvents \cup OldEvents
               /\ "image" \notin DOMAIN dst.groups["events"]
        /\ args.features = "all" =>
               /\ PlacedEvents =
                      {n \in DOMAIN src.groups["events"] : feature_exists(n, FALSE)}
               /\ DOMAIN dst.groups["events"] = PlacedEvents \cup OldEvents
               /\ "image" \in DOMAIN src.groups["events"] =>
                      "image" \in DOMAIN dst.groups["events"]

C8_Witness ==
    /\ Returned
    /\ args.features = "scalar"
    /\ HasEntry(src, "events", "image")
    /\ IsDataset(src.groups["events"]["image"])
    /\ DOMAIN dst.groups["events"] = {"deform"}

\* C9: with features='none' rtdc_copy never reads the source events group
\* and does not touch the destination events section: no events group, no
\* dataset under events; it does not fail for a source without events.
C9_NoEvents ==
    (entry = "rtdc_copy" /\ args.features = "none") =>
        /\ \A e \in Events : e.sec # "events"
        /\ HasGroup(dst, "events") = HasGroup(dst0, "events")
        /\ HasGroup(dst, "events") => dst.groups["events"] = dst0.groups["events"]
        /\ err # "KeyError"
        /\ (pc = "raised" => Last.sec \in {"logs", "tables"})

C9_Witness ==
    /\ Returned
    /\ args.features = "none"
    /\ HasEntry(src, "events", "deform")
    /\ IsDataset(src.groups["events"]["deform"])
    /\ ~HasGroup(dst, "events")
    /\ dst # dst0

\* C10: for every entry k of the source logs (include_logs) and tables
\* (include_tables), rtdc_copy creates the destination entry meta_prefix + k
\* in the same section with the content of the source entry; the entry made
\* from k is named k only if meta_prefix is empty.
C10_Prefix ==
    /\ \A e \in Placed :
           e.sec \in {"logs", "tables"} =>
               /\ e.name = args.meta_prefix \o e.origin
               /\ (e.name = e.origin => args.meta_prefix = "")
    /\ Returned =>
           \A sec \in {"logs", "tables"} :
               ( /\ HasGroup(src, sec)
                 /\ (sec = "logs" => args.include_logs)
                 /\ (sec = "tables" => args.include_tables) ) =>
                   \A k \in DOMAIN src.groups[sec] :
                       /\ \E e \in Placed :
                              e.sec = sec /\ e.origin = k
                                /\ e.name = args.meta_prefix \o k
                       /\ HasEntry(dst, sec, args.meta_prefix \o k)
                       /\ LET d == dst.groups[sec][args.meta_prefix \o k]
                              s == src.groups[sec][k]
                          IN  /\ d.shape = s.shape
                              /\ d.dtype = s.dtype
                              /\ d.data = s.data
                              /\ d.attrs = s.attrs

C10_Witness ==
    /\ Returned
    /\ args.meta_prefix = "exp1_"
    /\ \E e \in Placed :
          e.sec = "logs" /\ e.origin = "session" /\ e.name = "exp1_session"
    /\ ~HasEntry(dst, "logs", "session")
    /\ \E e \in Placed : e.sec = "tables" /\ e.name = "exp1_t1"

\* C11: once rtdc_copy is past its metadata step, the destination root holds
\* every root attribute of the source with the source's value, also where it
\* held another value under that key before the call; the root attributes of
\* the destination whose keys the source lacks are as they were, and no other
\* key has appeared.
C11_RootAttrs ==
    (entry = "rtdc_copy" /\ pc \notin {"start", "meta"}) =>
        /\ \A k \in DOMAIN src.attrs :
               k \in DOMAIN dst.attrs /\ dst.attrs[k] = src.attrs[k]
        /\ \A k \in DOMAIN dst0.attrs \ DOMAIN src.attrs :
               k \in DOMAIN dst.attrs /\ dst.attrs[k] = dst0.attrs[k]
        /\ DOMAIN dst.attrs = DOMAIN dst0.attrs \cup DOMAIN src.attrs

C11_Witness ==
    /\ entry = "rtdc_copy"
    /\ pc = "logs"
    /\ "run" \in DOMAIN dst0.attrs
    /\ dst0.attrs["run"] = Num(0)
    /\ src.attrs["run"] = Num(1)
    /\ dst.attrs["run"] = Num(1)
    /\ "user" \notin DOMAIN src.attrs
    /\ dst.attrs["user"] = dst0.attrs["user"]

\* C12: an entry of the source events for which feature_exists is false in
\* the selected mode is passed over in silence: the history holds no access
\* and no raise for it, the destination gets no entry of its name, and the
\* entries that are recognized are placed all the same, before and after it.
C12_Skipped ==
    (entry = "rtdc_copy" /\ args.features # "none") =>
        /\ \A e \in Events :
               (e.sec = "events" /\ e.origin # "") =>
                   feature_exists(e.origin, args.features = "scalar")
        /\ (pc \in {"events_loop", "done"}) =>
               \A n \in DOMAIN src.groups["events"] \ todo :
                   IF feature_exists(n, args.features = "scalar")
                   THEN n \in PlacedEvents
                   ELSE /\ n \notin PlacedEvents
                        /\ HasEntry(dst, "events", n) => n \in OldEvents
        /\ (pc = "raised" /\ Last.sec = "events" /\ Last.origin # "") =>
               feature_exists(Last.origin, args.features = "scalar")

C12_Witness ==
    /\ Returned
    /\ args.features = "all"
    /\ HasEntry(src, "events", "bogus")
    /\ IsDataset(src.groups["events"]["bogus"])
    /\ ~feature_exists("bogus", FALSE)
    /\ ~HasEntry(dst, "events", "bogus")
    /\ {"deform", "image"} \subseteq PlacedEvents

\* the filter pipeline of d holds Zstandard (id 32015) with a first
\* parameter of at least 5
HasZstd5(d) ==
    \E i \in 1..Len(d.filters) :
        /\ d.filters[i].id = 32015
        /\ Len(d.filters[i].cd) >= 1
        /\ d.filters[i].cd[1] >= 5

\* the answer is_properly_compressed gave, read off the path h5ds_copy took
\* with ensure_compression set: true on the verbatim path, false on the
\* re-encoding path
C13_Answer ==
    (entry = "h5ds_copy" /\ call.ensure_compression) =>
        \A e \in Placed :
            /\ e.op = "copy" <=> HasZstd5(SrcOf(e))
            /\ ( \/ SrcOf(e).filters = <<>>
                 \/ \A i \in 1..Len(SrcOf(e).filters) :
                        \/ SrcOf(e).filters[i].id # 32015
                        \/ /\ SrcOf(e).filters[i].cd # <<>>
                           /\ SrcOf(e).filters[i].cd[1] < 5 ) => e.op = "create"

\* C13: is_properly_compressed answers true iff the filter pipeline of the
\* dataset holds Zstandard (id 32015) with a level of at least 5, and false
\* for another codec, for a lower level and for no compression; the step
\* that asks it leaves the source as it is.
C13_Zstd ==
    /\ []C13_Answer
    /\ [][pc = "h5ds_copy" => src' = src]_vars

C13_Witness ==
    /\ entry = "h5ds_copy"
    /\ pc = "done"
    /\ call.ensure_compression
    /\ \E e \in Placed : e.op = "copy" /\ SrcOf(e).filters = Zstd(5)

\* C14: the chunk shape handed to create_dataset on the re-encoding path is
\* None when the source has no chunk shape; the source's chunk shape with
\* axis 0 set to the source's length and every other axis as it was when
\* the source's chunk is longer than the source along axis 0; and the
\* source's chunk shape as it is otherwise.
C14_Chunks ==
    entry = "h5ds_copy" =>
        \A e \in Placed :
            e.op = "create" =>
                LET s == SrcOf(e)
                    c == call.chunks
                IN  /\ s.chunks = None => c = None
                    /\ (s.chunks # None /\ s.chunks[1] > s.shape[1]) =>
                           /\ c # None
                           /\ Len(c) = Len(s.chunks)
                           /\ c[1] = s.shape[1]
                           /\ \A ax \in 2..Len(c) : c[ax] = s.chunks[ax]
                    /\ (s.chunks # None /\ s.chunks[1] <= s.shape[1]) =>
                           c = s.chunks
                    /\ c # None => DstOf(e).chunks = c

C14_Witness ==
    /\ entry = "h5ds_copy"
    /\ pc = "done"
    /\ \E e \in Placed :
          /\ e.op = "create"
          /\ SrcOf(e).shape = <<1, 2>>
          /\ SrcOf(e).chunks = <<3, 1>>
          /\ call.chunks = <<1, 1>>
          /\ DstOf(e).chunks = <<1, 1>>

\* C15: h5ds_copy takes the verbatim path exactly when ensure_compression is
\* false or the source is properly compressed, and the dataset placed on
\* that path has the source's filter pipeline, chunk shape and checksum
\* setting as they are: the checksum is not switched on.
C15_Verbatim ==
    entry = "h5ds_copy" =>
        \A e \in Placed :
            /\ e.op = "copy" <=>
                   (~call.ensure_compression \/ HasZstd5(SrcOf(e)))
            /\ e.op = "copy" =>
                   /\ DstOf(e).filters = SrcOf(e).filters
                   /\ DstOf(e).chunks = SrcOf(e).chunks
                   /\ DstOf(e).fletcher32 = SrcOf(e).fletcher32

C15_Witness ==
    /\ entry = "h5ds_copy"
    /\ pc = "done"
    /\ ~call.ensure_compression
    /\ \E e \in Placed :
          /\ e.op = "copy"
          /\ SrcOf(e).filters = Gzip
          /\ ~SrcOf(e).fletcher32
          /\ SrcOf(e).chunks[1] > SrcOf(e).shape[1]
          /\ DstOf(e).filters = Gzip
          /\ ~DstOf(e).fletcher32

\* C16: a dataset made on the re-encoding path has the source's shape and
\* dtype, the Zstandard filter at level 5 whatever the arguments of the call
\* are, and the fletcher32 checksum switched on, whether the source had a
\* checksum or not.
C16_Reencoded ==
    entry = "h5ds_copy" =>
        \A e \in Placed :
            e.op = "create" =>
                /\ DstOf(e).shape = SrcOf(e).shape
                /\ DstOf(e).dtype = SrcOf(e).dtype
                /\ DstOf(e).filters = <<[id |-> 32015, cd |-> <<5>>]>>
                /\ DstOf(e).fletcher32

C16_Witness ==
    /\ entry = "h5ds_copy"
    /\ pc = "done"
    /\ call.dst_name = "copy"
    /\ \E e \in Placed :
          /\ e.op = "create"
          /\ SrcOf(e).filters = Zstd(3)
          /\ ~SrcOf(e).fletcher32
          /\ SrcOf(e).dtype = "uint8"
          /\ SrcOf(e).shape = <<2, 2>>
          /\ DstOf(e).dtype = "uint8"
          /\ DstOf(e).shape = <<2, 2>>
          /\ DstOf(e).fletcher32

\* C17: when h5ds_copy has returned, the dataset it placed carries exactly
\* the attributes of the source dataset: the same keys with the same values,
\* none added and none dropped, on the re-encoding path and on the verbatim
\* path, under the source's name and under another destination name.
C17_Attrs ==
    (entry = "h5ds_copy" /\ pc = "done") =>
        /\ Placed # {}
        /\ \A e \in Placed :
               /\ e.name = DstName(call)
               /\ DOMAIN DstOf(e).attrs = DOMAIN SrcOf(e).attrs
               /\ \A k \in DOMAIN SrcOf(e).attrs :
                      DstOf(e).attrs[k] = SrcOf(e).attrs[k]

C17_Witness ==
    /\ entry = "h5ds_copy"
    /\ pc = "done"
    /\ call.dst_name = "copy"
    /\ \E e \in Placed :
          /\ e.op = "create"
          /\ e.name = "copy"
          /\ DOMAIN SrcOf(e).attrs = {"min", "max", "mean", "unit"}
          /\ DstOf(e).attrs["unit"] = Num(2)
          /\ DstOf(e).attrs["min"] = Num(-7)

\* C18: the statistics step is idempotent: applied again to a dataset it has
\* annotated it changes no attribute, and every attribute the dataset had
\* before the first run (the attributes copied from the source) keeps its
\* value through the runs.
C18_Idempotent ==
    \A e \in Events :
        e.op = "stats" =>
            /\ {"min", "max", "mean"} \subseteq DOMAIN DstOf(e).attrs
            /\ Annotate(DstOf(e)) = DstOf(e).attrs
            /\ Annotate([DstOf(e) EXCEPT !.attrs = Annotate(DstOf(e))])
                   = DstOf(e).attrs
            /\ \A k \in DOMAIN SrcOf(e).attrs :
                   DstOf(e).attrs[k] = SrcOf(e).attrs[k]

C18_Witness ==
    \E e \in Events :
        /\ e.op = "stats"
        /\ DOMAIN SrcOf(e).attrs = {"min"}
        /\ DstOf(e).attrs["min"] = Num(-7)
        /\ DOMAIN DstOf(e).attrs = {"min", "max", "mean"}
        /\ Annotate(DstOf(e)) = DstOf(e).attrs

\* the section is asked for and the source has it
SectionOn(sec) ==
    /\ HasGroup(src, sec)
    /\ sec = "logs" => args.include_logs
    /\ sec = "tables" => args.include_tables

\* C19: rtdc_copy makes or touches the destination logs group iff
\* include_logs is true and the source has a logs group, and the destination
\* tables group iff include_tables is true and the source has a tables
\* group; with the flag false or the source section absent the history holds
\* no access to the destination section, the section is as it was before
\* the call (absent or with the same content), and no error comes from it.
C19_Sections ==
    entry = "rtdc_copy" =>
        \A sec \in {"logs", "tables"} :
            IF SectionOn(sec)
            THEN /\ (\E e \in Events : e.sec = sec) =>
                        /\ HasGroup(dst, sec)
                        /\ \E e \in Events :
                               e.op = "require_group" /\ e.sec = sec
                 /\ Returned => \E e \in Events :
                                    e.op = "require_group" /\ e.sec = sec
            ELSE /\ \A e \in Events : e.sec # sec
                 /\ HasGroup(dst, sec) <=> HasGroup(dst0, sec)
                 /\ HasGroup(dst, sec) => dst.groups[sec] = dst0.groups[sec]
                 /\ pc = "raised" => Last.sec # sec

C19_Witness ==
    /\ Returned
    /\ ~args.include_logs
    /\ HasGroup(src, "logs")
    /\ HasGroup(dst0, "logs")
    /\ dst.groups["logs"] = dst0.groups["logs"]
    /\ args.include_tables
    /\ HasGroup(src, "tables")
    /\ ~HasGroup(dst0, "tables")
    /\ HasGroup(dst, "tables")
    /\ \E e \in Placed : e.sec = "tables"

\* C20: no step of rtdc_copy or of h5ds_copy, in a run that returns or in a
\* run that raises, changes the source container: its root attributes,
\* groups, datasets, dataset attributes and data stay as they are; the
\* statistics go to the destination dataset.
C20_SourceKept == [][src' = src]_vars

C20_Witness ==
    /\ Returned
    /\ \E e \in Events :
          /\ e.op = "stats"
          /\ DOMAIN SrcOf(e).attrs = {"min"}
          /\ "mean" \in DOMAIN DstOf(e).attrs
    /\ \E e \in Placed : e.op = "create"

\* the source entry at which the call raised ("" for the events lookup)
FailedKey == IF Last.origin # "" THEN Last.origin ELSE Last.name

\* the run of rtdc_copy raised at an entry of a section
FailedInSection ==
    /\ entry = "rtdc_copy"
    /\ pc = "raised"
    /\ Last.sec \in {"logs", "tables", "events"}
    /\ FailedKey # ""

\* the entries of the failing section that this call placed before it failed
PlacedBefore == {e \in Placed : e.sec = Last.sec}

\* the names the destination held in a section before the call
OldNames(sec) == IF HasGroup(dst0, sec) THEN DOMAIN dst0.groups[sec] ELSE {}

\* the entry placed last
Last_Placed ==
    LET I == {i \in 1..Len(log) : log[i] \in Placed}
    IN  log[CHOOSE i \in I : \A j \in I : j <= i]

\* C21 as stated: when a section copy fails at one of its entries, the
\* destination holds none of the entries of that section copied by this call.
C21_Original == FailedInSection => PlacedBefore = {}

\* C21: a section copy is not undone: when it fails at one of its entries,
\* the entries of that section this call copied before the failing one are
\* in the destination, with the source's shape, data and attributes; the
\* entries after it have made nothing, and so has the failing entry unless
\* it failed in its statistics, after its dataset was copied; the
\* destination section holds what it held before plus that prefix.
C21_Amended ==
    FailedInSection =>
        /\ \A e \in PlacedBefore :
               /\ e.origin = FailedKey <=> (err = "ValueError" /\ e = Last_Placed)
               /\ e.origin \in DOMAIN src.groups[Last.sec]
               /\ HasEntry(dst, Last.sec, e.name)
               /\ DstOf(e).shape = SrcOf(e).shape
               /\ DstOf(e).data = SrcOf(e).data
               /\ \A k \in DOMAIN SrcOf(e).attrs :
                      DstOf(e).attrs[k] = SrcOf(e).attrs[k]
        /\ DOMAIN dst.groups[Last.sec] =
               OldNames(Last.sec) \cup {e.name : e \in PlacedBefore}
        /\ err # "ValueError" =>
               Cardinality(PlacedBefore) < Cardinality(DOMAIN src.groups[Last.sec])
        /\ err = "ValueError" =>
               /\ \E e \in PlacedBefore : e.origin = FailedKey
               /\ \A e \in Events : e.op = "stats" => e.origin # FailedKey

C21_Witness ==
    /\ FailedInSection
    /\ Last.sec = "logs"
    /\ err = "NotADataset"
    /\ FailedKey = "session"
    /\ \E e \in PlacedBefore : e.origin = "exp1_session"
    /\ HasEntry(dst, "logs", args.meta_prefix \o "exp1_session")

\* C22: a raise of rtdc_copy undoes nothing: in the state it leaves, every
\* root attribute of the source is in the destination with the source's
\* value, every dataset the call placed before the failing entry is there
\* with the source's data and attributes, and every statistic attached
\* before is still attached: the destination is partially populated.
C22_NoRollback ==
    (entry = "rtdc_copy" /\ pc = "raised") =>
        /\ \A k \in DOMAIN src.attrs :
               k \in DOMAIN dst.attrs /\ dst.attrs[k] = src.attrs[k]
        /\ \A e \in Placed :
               /\ HasEntry(dst, e.sec, e.name)
               /\ DstOf(e).shape = SrcOf(e).shape
               /\ DstOf(e).dtype = SrcOf(e).dtype
               /\ DstOf(e).data = SrcOf(e).data
               /\ \A k \in DOMAIN SrcOf(e).attrs :
                      DstOf(e).attrs[k] = SrcOf(e).attrs[k]
        /\ \A e \in Events :
               e.op = "stats" =>
                   {"min", "max", "mean"} \subseteq DOMAIN DstOf(e).attrs
        /\ \A e \in Events :
               e.op = "require_group" => HasGroup(dst, e.sec)

C22_Witness ==
    /\ entry = "rtdc_copy"
    /\ pc = "raised"
    /\ Last.sec = "events"
    /\ dst0.attrs = Empty
    /\ dst.attrs["run"] = Num(1)
    /\ \E e \in Placed : e.sec = "logs"
    /\ \E e \in Placed : e.sec = "tables"
    /\ \E e \in Events : e.op = "stats"
    /\ dst # dst0

\* the array has no element that is a number: min, max and mean of it cannot
\* be computed
NoNumber(data) == \A c \in DOMAIN data : data[c].k = "nan"

\* C23: when a statistic of a scalar feature cannot be computed, rtdc_copy
\* does not raise in the statistics step, and the statistics it attaches to
\* that feature are NaN for min, max and mean.
C23_Original ==
    entry = "rtdc_copy" =>
        /\ err # "ValueError"
        /\ \A e \in Events :
               (e.op = "stats" /\ NoNumber(SrcOf(e).data)) =>
                   \A a \in {"min", "max", "mean"} \ DOMAIN SrcOf(e).attrs :
                       DstOf(e).attrs[a] = NaN

\* what holds of the arrays that have elements: all of them NaN gives NaN
\* for the three statistics and the call goes on
C23_AllNaN ==
    entry = "rtdc_copy" =>
        /\ err = "ValueError" =>
               /\ HasEntry(dst, "events", Last.name)
               /\ DOMAIN DstOf(Last).data = {}
        /\ \A e \in Events :
               (e.op = "stats" /\ NoNumber(SrcOf(e).data)) =>
                   /\ DOMAIN SrcOf(e).data # {}
                   /\ \A a \in {"min", "max", "mean"} \ DOMAIN SrcOf(e).attrs :
                          DstOf(e).attrs[a] = NaN

C23_Witness ==
    /\ Returned
    /\ \E e \in Events :
          /\ e.op = "stats"
          /\ SrcOf(e).shape = <<2>>
          /\ NoNumber(SrcOf(e).data)
          /\ DstOf(e).attrs["min"] = NaN
          /\ DstOf(e).attrs["mean"] = NaN

\* the positions of the history at which data was written
Writes == {i \in 1..Len(log) : log[i].op = "write"}

RECURSIVE Moved(_)
\* the number of elements the write steps in I have moved
Moved(I) == IF I = {} THEN 0
            ELSE LET i == CHOOSE x \in I : TRUE
                 IN  log[i].n + Moved(I \ {i})

\* the number of elements of one chunk
ChunkElems(chunks) ==
    IF Len(chunks) = 1 THEN chunks[1] ELSE chunks[1] * chunks[2]

\* the array lies within one chunk of its own partition
OneChunk(s) == \A dim \in 1..Len(s.shape) : s.chunks[dim] >= s.shape[dim]

\* the transfer of the re-encoding path seen step by step: what the steps
\* have moved so far is in the destination at the place it has in the
\* source, the rest is still the fill value; a contiguous source moves in
\* one step, a chunked source in steps of at most one chunk
Transfer(whole_allowed) ==
    entry = "h5ds_copy" =>
        \A e \in Placed :
            e.op = "create" =>
                LET s == SrcOf(e)
                    d == DstOf(e)
                    total == Cardinality(DOMAIN s.data)
                IN  /\ Cardinality({c \in DOMAIN s.data : d.data[c] = s.data[c]})
                           = Moved(Writes)
                    /\ pc = "done" => Moved(Writes) = total
                    /\ \A i \in Writes :
                           IF s.chunks = None
                           THEN log[i].n = total /\ Cardinality(Writes) = 1
                           ELSE /\ log[i].n >= 1
                                /\ log[i].n <= ChunkElems(s.chunks)
                                /\ log[i].n = total =>
                                       (whole_allowed /\ OneChunk(s))

\* C24 as stated: on the re-encoding path a chunked source moves in steps
\* of one region of its chunk partition, never more than one chunk's worth,
\* and no step moves the whole array; only a source without chunk shape
\* moves as a whole.
C24_Original == Transfer(FALSE)

\* C24: on the re-encoding path a chunked source moves in steps of one
\* region of its chunk partition, each written to the same region of the
\* destination and never more than one chunk's worth; a step moves the
\* whole array only when the array lies within a single chunk; a source
\* without chunk shape moves as a whole in one step.
C24_Amended == Transfer(TRUE)

C24_Witness ==
    /\ entry = "h5ds_copy"
    /\ pc = "done"
    /\ \E e \in Placed :
          /\ e.op = "create"
          /\ SrcOf(e).shape = <<3>>
          /\ SrcOf(e).chunks = <<2>>
    /\ Cardinality(Writes) = 2
    /\ \E i, j \in Writes : i < j /\ log[i].n = 2 /\ log[j].n = 1

\* the place of an access in the order of the sections
SecRank(e) ==
    CASE e.op = "attrs" -> 0
      [] e.sec = "logs" -> 1
      [] e.sec = "tables" -> 2
      [] OTHER -> 3

\* the source entry an access belongs to ("" for an access to the group)
KeyOf(e) == IF e.origin # "" THEN e.origin ELSE e.name

\* C25: the accesses of rtdc_copy to the destination are ordered by section:
\* the root attributes first, then everything of logs, then everything of
\* tables, then the events group and the features; the accesses of one
\* feature are not interleaved with those of another, and its statistics
\* are written after its dataset is placed and complete and are the last
\* access to it.
C25_Order ==
    entry = "rtdc_copy" =>
        /\ Len(log) >= 1 => log[1].op = "attrs"
        /\ \A i, j \in 1..Len(log) :
               i < j =>
                   /\ SecRank(log[i]) <= SecRank(log[j])
                   /\ ( /\ log[i].sec = log[j].sec
                        /\ KeyOf(log[i]) # ""
                        /\ KeyOf(log[i]) = KeyOf(log[j]) ) =>
                          ( /\ log[i + 1].sec = log[i].sec
                            /\ KeyOf(log[i + 1]) = KeyOf(log[i]) )
        /\ \A i \in 1..Len(log) :
               log[i].op = "stats" =>
                   /\ \E k \in 1..(i - 1) :
                          /\ log[k] \in Placed
                          /\ log[k].sec = "events"
                          /\ log[k].origin = log[i].origin
                          /\ log[k].op = "create" =>
                                 \E m \in (k + 1)..(i - 1) :
                                     /\ log[m].op = "dsattrs"
                                     /\ log[m].origin = log[i].origin
                   /\ DstOf(log[i]).data = SrcOf(log[i]).data
                   /\ \A j \in (i + 1)..Len(log) :
                          ~(log[j].sec = "events" /\ KeyOf(log[j]) = KeyOf(log[i]))

C25_Witness ==
    /\ Returned
    /\ log[1].op = "attrs"
    /\ \E l \in 2..Len(log) :
          /\ log[l].op = "create" /\ log[l].sec = "logs"
          /\ \E t \in (l + 1)..Len(log) :
                /\ log[t].op = "create" /\ log[t].sec = "tables"
                /\ \E f \in (t + 1)..Len(log) :
                      /\ log[f].op = "create" /\ log[f].origin = "deform"
                      /\ \E s \in (f + 1)..Len(log) :
                            /\ log[s].op = "stats" /\ log[s].origin = "deform"
                            /\ \E g \in (s + 1)..Len(log) :
                                  /\ log[g].op = "create"
                                  /\ log[g].origin = "image"

\* the source has an events group of which no entry is a feature of the
\* selected mode
NoFeature ==
    /\ HasGroup(src, "events")
    /\ \A n \in DOMAIN src.groups["events"] :
           ~feature_exists(n, args.features = "scalar")

\* the part of C29 that does not depend on what the destination held: with
\* features 'all' or 'scalar' a source without events makes rtdc_copy raise
\* the lookup error, after the root attributes were written, the logs and
\* tables asked for were copied and the destination events group was
\* opened; a source whose events hold no feature makes no error
EventsLookup ==
    (entry = "rtdc_copy" /\ args.features # "none") =>
        /\ Returned => HasGroup(src, "events")
        /\ pc = "raised" =>
               (err = "KeyError" <=> (Last.sec = "events" /\ ~HasGroup(src, "events")))
        /\ (pc = "raised" /\ err = "KeyError") =>
               /\ \A k \in DOMAIN src.attrs :
                      k \in DOMAIN dst.attrs /\ dst.attrs[k] = src.attrs[k]
               /\ \A sec \in {"logs", "tables"} :
                      SectionOn(sec) =>
                          \A k \in DOMAIN src.groups[sec] :
                              \E e \in Placed :
                                  /\ e.sec = sec /\ e.origin = k
                                  /\ HasEntry(dst, sec, e.name)
                                  /\ DstOf(e).data = SrcOf(e).data
               /\ HasGroup(dst, "events")
               /\ Last.op = "raise"
               /\ log[Len(log) - 1].op = "require_group"
        /\ (pc = "raised" /\ NoFeature) => Last.sec # "events"
        /\ (Returned /\ NoFeature) => HasGroup(dst, "events")

\* C29 as stated: in both cases the events group of the destination is
\* empty afterwards.
C29_Original ==
    /\ EventsLookup
    /\ ( /\ entry = "rtdc_copy"
         /\ args.features # "none"
         /\ \/ pc = "raised" /\ err = "KeyError"
            \/ Returned /\ NoFeature ) => dst.groups["events"] = Empty

\* C29: the events section of the source is not optional: with features
\* 'all' or 'scalar' a source without events makes rtdc_copy raise the
\* lookup error after it wrote the root attributes, copied logs and tables
\* and opened the destination events group; a source whose events hold no
\* feature makes the call succeed; in both cases the destination events
\* group holds what it held before the call: nothing when the call made it.
C29_Amended ==
    /\ EventsLookup
    /\ ( /\ entry = "rtdc_copy"
         /\ args.features # "none"
         /\ \/ pc = "raised" /\ err = "KeyError"
            \/ Returned /\ NoFeature ) =>
           dst.groups["events"] =
               (IF HasGroup(dst0, "events") THEN dst0.groups["events"] ELSE Empty)

C29_Witness ==
    /\ entry = "rtdc_copy"
    /\ pc = "raised"
    /\ err = "KeyError"
    /\ args.features = "scalar"
    /\ ~HasGroup(dst0, "events")
    /\ dst.groups["events"] = Empty
    /\ \E e \in Placed : e.sec = "logs" /\ e.op = "create"
    /\ \E e \in Placed : e.sec = "tables"
    /\ dst.attrs["run"] = Num(1)

\* the names of a section of a container
NamesOf(c, sec) == IF HasGroup(c, sec) THEN DOMAIN c.groups[sec] ELSE {}

\* a name the earlier call made in a section is a name the running call makes
NameClash(sec) ==
    \E a \in NamesOf(prev.src, sec), b \in NamesOf(src, sec) :
        prev.args.meta_prefix \o a = args.meta_prefix \o b

\* rtdc_copy ran for source A (prev.src) and runs for source B (src) with
\* features 'none' into the same destination, logs included both times, no
\* prefixed log name of A being a prefixed log name of B
MergeCase ==
    /\ prev.called
    /\ entry = "rtdc_copy"
    /\ args.features = "none"
    /\ prev.args.include_logs
    /\ args.include_logs
    /\ ~NameClash("logs")

\* the second call does not raise, leaves the entries of the first as they
\* were, and after it the logs group holds the logs of A and of B under
\* their prefixed names, with the data and attributes of their sources
Merged ==
    /\ pc # "raised"
    /\ \A n \in NamesOf(dst0, "logs") :
           HasEntry(dst, "logs", n) /\ dst.groups["logs"][n] = dst0.groups["logs"][n]
    /\ Returned =>
           /\ \A a \in NamesOf(prev.src, "logs") :
                  LET n == prev.args.meta_prefix \o a
                  IN  /\ HasEntry(dst, "logs", n)
                      /\ dst.groups["logs"][n].data = prev.src.groups["logs"][a].data
                      /\ dst.groups["logs"][n].attrs = prev.src.groups["logs"][a].attrs
           /\ \A b \in NamesOf(src, "logs") :
                  LET n == args.meta_prefix \o b
                  IN  /\ HasEntry(dst, "logs", n)
                      /\ dst.groups["logs"][n].data = src.groups["logs"][b].data
                      /\ dst.groups["logs"][n].attrs = src.groups["logs"][b].attrs
           /\ NamesOf(dst, "logs") =
                  {prev.args.meta_prefix \o a : a \in NamesOf(prev.src, "logs")}
                  \cup {args.meta_prefix \o b : b \in NamesOf(src, "logs")}

\* C26 as stated: with no clash among the prefixed log names the two calls
\* succeed and the logs are merged.
C26_Original == MergeCase => Merged

\* C26: the logs of two sources are merged by two calls with no clash among
\* the prefixed log names, given that the second call does not copy a table
\* under a name the first call made (tables left out in one of the calls,
\* or no clash among the prefixed table names either).
C26_Amended ==
    ( /\ MergeCase
      /\ \/ ~prev.args.include_tables
         \/ ~args.include_tables
         \/ ~NameClash("tables") ) => Merged

C26_Witness ==
    /\ MergeCase
    /\ Returned
    /\ prev.args.meta_prefix = ""
    /\ args.meta_prefix = "exp1_"
    /\ args.include_tables /\ prev.args.include_tables
    /\ NamesOf(prev.src, "logs") = {"session"}
    /\ NamesOf(src, "logs") = {"session"}
    /\ NamesOf(dst, "logs") = {"session", "exp1_session"}
    /\ NamesOf(dst, "tables") = {"t1", "exp1_t1"}
    /\ dst.groups["logs"]["session"].data # dst.groups["logs"]["exp1_session"].data

\* the running call has the source and the arguments of the call before it
SameCall == prev.called /\ src = prev.src /\ args = prev.args

\* C27: h5ds_copy does not overwrite: nothing is placed under a name the
\* destination held when the call began, every entry it held is as it was,
\* and a call for such a name ends in the name-exists error on either path;
\* so rtdc_copy run again with the same source, destination and arguments
\* places nothing and fails at the first dataset it tries to copy.
C27_NoOverwrite ==
    entry = "rtdc_copy" =>
        /\ \A e \in Placed : e.name \notin NamesOf(dst0, e.sec)
        /\ \A sec \in DOMAIN dst0.groups :
               \A n \in DOMAIN dst0.groups[sec] :
                   /\ HasEntry(dst, sec, n)
                   /\ dst.groups[sec][n] = dst0.groups[sec][n]
        /\ pc \in {"h5ds_write", "h5ds_attrs"} =>
               DstName(call) \notin NamesOf(dst0, call.dst_sec)
        /\ (pc = "raised" /\ err = "NameExists") =>
               /\ Last.name \in NamesOf(dst0, Last.sec)
               /\ \A e \in Placed : e.sec # Last.sec \/ e.name # Last.name
        /\ SameCall =>
               /\ Placed = {}
               /\ pc # "done"
               /\ pc = "raised" =>
                      /\ err = "NameExists"
                      /\ Last.sec = "logs"
                      /\ dst.groups = dst0.groups

C27_Witness ==
    /\ entry = "rtdc_copy"
    /\ SameCall
    /\ pc = "raised"
    /\ err = "NameExists"
    /\ Last.name = "exp1_session"
    /\ is_properly_compressed(src.groups["logs"][Last.origin])
    /\ dst.groups["logs"]["exp1_session"] = src.groups["logs"][Last.origin]

\* the call before the running one made its dataset on the re-encoding path
WasReencoded ==
    /\ prev.called
    /\ entry = "h5ds_copy"
    /\ \E i \in 1..Len(prev.log) : prev.log[i].op = "create"

\* C28: a dataset made on the re-encoding path is properly compressed, so
\* h5ds_copy on it with ensure_compression=True takes the verbatim path,
\* writes no data of its own and yields a dataset with the same filter
\* pipeline, chunk shape, checksum setting, attributes and data.
C28_FixedPoint ==
    WasReencoded =>
        /\ call.ensure_compression
        /\ HasZstd5(SrcObj(call))
        /\ pc # "raised"
        /\ \A e \in Events : e.op \in {"copy"}
        /\ pc = "done" => Placed # {}
        /\ \A e \in Placed :
               /\ DstOf(e).filters = SrcOf(e).filters
               /\ DstOf(e).chunks = SrcOf(e).chunks
               /\ DstOf(e).fletcher32 = SrcOf(e).fletcher32
               /\ DstOf(e).attrs = SrcOf(e).attrs
               /\ DstOf(e).data = SrcOf(e).data
               /\ DstOf(e).data = prev.src.groups["logs"]["d"].data

C28_Witness ==
    /\ WasReencoded
    /\ pc = "done"
    /\ prev.src.groups["logs"]["d"].filters = Gzip
    /\ prev.src.groups["logs"]["d"].shape = <<2, 2>>
    /\ \E e \in Placed :
          /\ e.op = "copy"
          /\ e.origin = "copy"
          /\ DstOf(e).filters = Zstd(5)
          /\ DstOf(e).fletcher32

====
